---- MODULE Spec2Model ----
(***************************************************************************)
(* queries.js: one script, main(), that connects a MongoClient, runs a     *)
(* fixed sequence of operations against the collection plp_bookstore.books *)
(* and closes the client in a finally block.                               *)
(*                                                                         *)
(* The collection is a sequence of documents in scan (natural) order.      *)
(* Prices are held in cents (11.99 is 1199).  The operators named after    *)
(* driver calls (UpdateOne, DeleteOne, Skip, Limit, SortOutcomes, Explain) *)
(* give the datastore's answer to the call the script makes at the mapped  *)
(* line.                                                                   *)
(***************************************************************************)
EXTENDS Integers, Sequences, FiniteSets, TLC

VARIABLES
  coll,         \* the books collection, in scan order (persists across runs)
  indexes,      \* secondary indexes on the collection (persists across runs)
  seed,         \* the collection as seeded, before the first run
  collAtStart,  \* the collection when the current run of main() started
  idxAtStart,   \* the indexes when the current run of main() started
  run,          \* number of the current run of the script
  phase,        \* where main() is: "try", "catch", "finally", "done", or "ops"
  pc,           \* index in RunSequence of the next request of the try block
  inflight,     \* requests awaited and not yet settled
  issued,       \* requests issued by the current run, in order
  log,          \* console lines of the current run, in order
  conn,         \* the run's client: "new", "open", "closed"
  closeCalls,   \* calls of client.close() in the current run
  failedAt,     \* index of the rejected request of the current run, 0 if none
  result,       \* value returned by the last settled operation
  before,       \* explainIndexEffect: executionStats of the first explain
  after,        \* explainIndexEffect: executionStats of the second explain
  idxBefore,    \* the indexes the collection had at the first explain
  idxAfter,     \* the indexes the collection had at the second explain
  call,         \* last operation that returned, with its arguments
  lastDelete,   \* the call that returned just before it, when that was
                \* deleteByTitle
  pre           \* the collection when the datastore served that call

vars == << coll, indexes, seed, collAtStart, idxAtStart, run, phase, pc,
           inflight, issued, log, conn, closeCalls, failedAt, result,
           before, after, idxBefore, idxAfter, call, lastDelete, pre >>

runVars == << phase, pc, inflight, issued, log, conn, closeCalls, failedAt >>
explainVars == << before, after, idxBefore, idxAfter >>
callVars == << call, lastDelete, pre >>

----------------------------------------------------------------------------
(* Bounds of the model *)

MaxDocs == 3
MaxRuns == 2
MaxPage == 2
MaxCalls == 2
MaxPageSize == 2

(* Arguments of the run sequence *)

NewPrice == 1199
AfterYear == 1950
StockYear == 2010
RunPageSize == 5

----------------------------------------------------------------------------
(* Book documents *)

Palette ==
  { [title |-> "1984", author |-> "George Orwell", genre |-> "Fiction",
     published_year |-> 1949, price |-> 1099, in_stock |-> TRUE],
    [title |-> "1984", author |-> "George Orwell", genre |-> "Fiction",
     published_year |-> 1949, price |-> 1199, in_stock |-> FALSE],
    [title |-> "Animal Farm", author |-> "George Orwell", genre |-> "Satire",
     published_year |-> 1945, price |-> 899, in_stock |-> TRUE],
    [title |-> "Bad Book", author |-> "A. Nobody", genre |-> "Fiction",
     published_year |-> 2015, price |-> 1199, in_stock |-> TRUE] }

Titles == {"1984", "No Such Book"}
Prices == {1099, 1199}
\* "undefined" is a call that leaves the argument out
Orders == {"asc", "desc", "ASC", "undefined"}

WithId(b, i) ==
  [_id |-> i, title |-> b.title, author |-> b.author, genre |-> b.genre,
   published_year |-> b.published_year, price |-> b.price,
   in_stock |-> b.in_stock]

SeededCollections ==
  UNION { { [i \in 1..n |-> WithId(s[i], i)] : s \in [1..n -> Palette] }
          : n \in 0..MaxDocs }

NoStats == [stage |-> "none", nReturned |-> 0, totalKeysExamined |-> 0,
            totalDocsExamined |-> 0]
NoCall == [op |-> "none"]

----------------------------------------------------------------------------
(* Sequences *)

RECURSIVE Concat(_)
Concat(ss) == IF ss = << >> THEN << >> ELSE Head(ss) \o Concat(Tail(ss))

RECURSIVE SumPrice(_)
SumPrice(s) == IF s = << >> THEN 0 ELSE Head(s).price + SumPrice(Tail(s))

PermTable ==
  [n \in 0..MaxDocs |->
     { f \in [1..n -> 1..n] : \A i, j \in 1..n : f[i] = f[j] => i = j }]

Perms(n) == PermTable[n]

Reorderings(s) == { [i \in 1..Len(s) |-> s[f[i]]] : f \in Perms(Len(s)) }

Enumerations(S) ==
  { s \in [1..Cardinality(S) -> S] :
      \A i, j \in 1..Cardinality(S) : s[i] = s[j] => i = j }

Min(a, b) == IF a < b THEN a ELSE b

----------------------------------------------------------------------------
(* The datastore's answers to the driver calls of queries.js *)

Project(d, fields) == [f \in fields |-> d[f]]

ProjectAll(c, fields) == [i \in DOMAIN c |-> Project(c[i], fields)]

FirstMatch(c, title) ==
  IF \E i \in DOMAIN c : c[i].title = title
  THEN CHOOSE i \in DOMAIN c :
         c[i].title = title /\ \A j \in 1..(i - 1) : c[j].title # title
  ELSE 0

RemoveAt(c, i) == SubSeq(c, 1, i - 1) \o SubSeq(c, i + 1, Len(c))

UpdateOneNoCompare(c, title, newPrice) ==
  LET i == FirstMatch(c, title) IN
  IF i = 0
  THEN [coll |-> c, matchedCount |-> 0, modifiedCount |-> 0]
  ELSE [coll |-> [c EXCEPT ![i].price = newPrice],
        matchedCount |-> 1, modifiedCount |-> 1]

UpdateOneAll(c, title, newPrice) ==
  LET hit == { i \in DOMAIN c : c[i].title = title } IN
  [coll |-> [i \in DOMAIN c |->
               IF i \in hit THEN [c[i] EXCEPT !.price = newPrice] ELSE c[i]],
   matchedCount |-> IF hit = {} THEN 0 ELSE 1,
   modifiedCount |->
     IF \E i \in hit : c[i].price # newPrice THEN 1 ELSE 0]

UpdateOne(c, title, newPrice) ==
  LET i == FirstMatch(c, title) IN
  IF i = 0
  THEN [coll |-> c, matchedCount |-> 0, modifiedCount |-> 0]
  ELSE [coll |-> [c EXCEPT ![i].price = newPrice],
        matchedCount |-> 1,
        modifiedCount |-> IF c[i].price = newPrice THEN 0 ELSE 1]

DeleteOneMany(c, title) ==
  LET rest == SelectSeq(c, LAMBDA d : d.title # title) IN
  [coll |-> rest, deletedCount |-> IF Len(rest) < Len(c) THEN 1 ELSE 0]

DeleteOne(c, title) ==
  LET i == FirstMatch(c, title) IN
  IF i = 0
  THEN [coll |-> c, deletedCount |-> 0]
  ELSE [coll |-> RemoveAt(c, i), deletedCount |-> 1]

Skip(s, n) == SubSeq(s, n + 1, Len(s))

Limit(s, n) == IF n = 0 THEN s ELSE SubSeq(s, 1, Min(n, Len(s)))

SortDirectionDefaultDesc(order) == IF order = "desc" THEN -1 ELSE 1

SortDirection(order) == IF order = "asc" THEN 1 ELSE -1

\* d goes before e under the sort { price: dir }
Before(d, e, dir) == IF dir = 1 THEN d.price < e.price ELSE d.price > e.price

InOrder(s, dir) ==
  \A i \in 1..(Len(s) - 1) : ~Before(s[i + 1], s[i], dir)

\* sort({ price: dir }): the documents in price order, documents of equal
\* price in an order the datastore chooses
SortOutcomes(c, dir) == { p \in Reorderings(c) : InOrder(p, dir) }

ExplainScanAll(c, idx, title) ==
  LET n == Len(SelectSeq(c, LAMBDA d : d.title = title)) IN
  IF "title_1" \in idx
  THEN [stage |-> "IXSCAN", nReturned |-> n,
        totalKeysExamined |-> Len(c) + 1, totalDocsExamined |-> n]
  ELSE [stage |-> "COLLSCAN", nReturned |-> n,
        totalKeysExamined |-> 0, totalDocsExamined |-> Len(c)]

\* executionStats of find({ title }): an index scan of the matching keys when
\* the title index exists, a scan of the whole collection otherwise.
Explain(c, idx, title) ==
  LET n == Len(SelectSeq(c, LAMBDA d : d.title = title)) IN
  IF "title_1" \in idx
  THEN [stage |-> "IXSCAN", nReturned |-> n,
        totalKeysExamined |-> n, totalDocsExamined |-> n]
  ELSE [stage |-> "COLLSCAN", nReturned |-> n,
        totalKeysExamined |-> 0, totalDocsExamined |-> Len(c)]

----------------------------------------------------------------------------
(* The operations main() defines *)

findByGenre(c, genre) == SelectSeq(c, LAMBDA d : d.genre = genre)

findPublishedAfter(c, year) ==
  SelectSeq(c, LAMBDA d : d.published_year > year)

findByAuthor(c, author) == SelectSeq(c, LAMBDA d : d.author = author)

updatePrice(c, title, newPrice) == UpdateOne(c, title, newPrice)

deleteByTitle(c, title) == DeleteOne(c, title)

inStockAfter(c, year) ==
  ProjectAll(SelectSeq(c, LAMBDA d : d.in_stock /\ d.published_year > year),
             {"title", "author", "price"})

\* order = 'asc' is the default of the parameter
OrderParam(order) == IF order = "undefined" THEN "asc" ELSE order

sortedByPrice(c, order) ==
  { ProjectAll(s, {"title", "price"}) :
      s \in SortOutcomes(c, SortDirection(OrderParam(order))) }

getPageZeroBased(c, page, pageSize) ==
  ProjectAll(Limit(Skip(c, page * pageSize), pageSize), {"title", "author"})

getPage(c, page, pageSize) ==
  LET skip == (page - 1) * pageSize IN
  ProjectAll(Limit(Skip(c, skip), pageSize), {"title", "author"})

\* avgPrice is the fraction sum/count, kept as the pair << sum, count >>
GenreGroups(c) ==
  { LET g == SelectSeq(c, LAMBDA d : d.genre = k) IN
    [_id |-> k, avgPrice |-> << SumPrice(g), Len(g) >>, count |-> Len(g)]
    : k \in { c[i].genre : i \in DOMAIN c } }

avgPriceByGenre(c) ==
  { s \in Enumerations(GenreGroups(c)) :
      \A i \in 1..(Len(s) - 1) :
        s[i].avgPrice[1] * s[i + 1].avgPrice[2]
          >= s[i + 1].avgPrice[1] * s[i].avgPrice[2] }

AuthorGroups(c) ==
  { [_id |-> k, count |-> Len(SelectSeq(c, LAMBDA d : d.author = k))]
    : k \in { c[i].author : i \in DOMAIN c } }

\* among authors with the same count the datastore returns any one
authorWithMostBooks(c) ==
  IF c = << >> THEN { << >> }
  ELSE { << g >> : g \in { h \in AuthorGroups(c) :
                            \A o \in AuthorGroups(c) : o.count <= h.count } }

DecadeGroups(c) ==
  { [_id |-> k,
     count |-> Len(SelectSeq(c,
                 LAMBDA d : (d.published_year \div 10) * 10 = k))]
    : k \in { (c[i].published_year \div 10) * 10 : i \in DOMAIN c } }

groupByDecade(c) ==
  CHOOSE s \in Enumerations(DecadeGroups(c)) :
    \A i \in 1..(Len(s) - 1) : s[i]._id < s[i + 1]._id

----------------------------------------------------------------------------
(* main(): the requests of the try block, in the order they are awaited *)

RunSequenceCompoundLate ==
  << "connect", "findByGenre", "findPublishedAfter", "findByAuthor",
     "updatePrice", "inStockAfter", "sortedByPrice(asc)",
     "sortedByPrice(desc)", "getPage(1)", "getPage(2)", "avgPriceByGenre",
     "authorWithMostBooks", "groupByDecade", "explain(before)",
     "createIndex(title)", "explain(after)", "createIndex(compound)" >>

RunSequence ==
  << "connect", "findByGenre", "findPublishedAfter", "findByAuthor",
     "updatePrice", "inStockAfter", "sortedByPrice(asc)",
     "sortedByPrice(desc)", "getPage(1)", "getPage(2)", "avgPriceByGenre",
     "authorWithMostBooks", "groupByDecade", "explain(before)",
     "createIndex(title)", "createIndex(compound)", "explain(after)" >>

\* the console line an operation prints when its request has resolved
ResultLine(req) ==
  CASE req = "connect" -> "Connected to MongoDB"
    [] req = "findByGenre" -> "Books in genre"
    [] req = "findPublishedAfter" -> "Books published after"
    [] req = "findByAuthor" -> "Books by"
    [] req = "updatePrice" -> "Updated price for"
    [] req = "deleteByTitle" -> "Deleted"
    [] req = "inStockAfter" -> "In-stock books after"
    [] req = "sortedByPrice(asc)" -> "Books sorted by price (asc)"
    [] req = "sortedByPrice(desc)" -> "Books sorted by price (desc)"
    [] req = "sortedByPrice" -> "Books sorted by price"
    [] req = "getPage(1)" -> "Page 1"
    [] req = "getPage(2)" -> "Page 2"
    [] req = "getPage" -> "Page"
    [] req = "avgPriceByGenre" -> "Average price by genre"
    [] req = "authorWithMostBooks" -> "Author with most books"
    [] req = "groupByDecade" -> "Books grouped by decade"
    [] req = "explain(before)" -> "explain BEFORE (summary)"
    [] req = "explain(after)" -> "explain AFTER (summary)"
    [] OTHER -> ""

\* what explainIndexEffect prints on entry, before it sends its first request
EntryLines(req) ==
  IF req = "explain(before)"
  THEN << "Running explain() BEFORE creating index..." >>
  ELSE << >>

CreatingIndexLine ==
  "Creating index on title and compound index on {author, published_year} ..."

RunningAfterLine == "Running explain() AFTER creating index..."

TitleIndex == "title_1"
CompoundIndex == "author_1_published_year_-1"

Init ==
  /\ coll \in SeededCollections
  /\ indexes = {}
  /\ seed = coll
  /\ collAtStart = coll
  /\ idxAtStart = {}
  /\ run = 1
  /\ phase = "try"
  /\ pc = 1
  /\ inflight = {}
  /\ issued = << >>
  /\ log = << >>
  /\ conn = "new"
  /\ closeCalls = 0
  /\ failedAt = 0
  /\ result = << >>
  /\ before = NoStats
  /\ after = NoStats
  /\ idxBefore = {}
  /\ idxAfter = {}
  /\ call = NoCall
  /\ lastDelete = NoCall
  /\ pre = << >>

\* the next await of the try block sends its request without waiting for the
\* ones still outstanding
IssueEager ==
  /\ phase = "try"
  /\ pc + Cardinality(inflight) <= Len(RunSequence)
  /\ inflight' = inflight \cup { RunSequence[pc + Cardinality(inflight)] }
  /\ issued' = Append(issued, RunSequence[pc + Cardinality(inflight)])
  /\ log' = log \o EntryLines(RunSequence[pc + Cardinality(inflight)])
  /\ UNCHANGED << coll, indexes, seed, collAtStart, idxAtStart, run, phase,
                  pc, conn, closeCalls, failedAt, result, explainVars,
                  callVars >>

\* the next await of the try block sends its request (explainIndexEffect
\* prints its first line before it does)
Issue ==
  /\ phase = "try"
  /\ inflight = {}
  /\ pc <= Len(RunSequence)
  /\ inflight' = { RunSequence[pc] }
  /\ issued' = Append(issued, RunSequence[pc])
  /\ log' = log \o EntryLines(RunSequence[pc])
  /\ UNCHANGED << coll, indexes, seed, collAtStart, idxAtStart, run, phase,
                  pc, conn, closeCalls, failedAt, result, explainVars,
                  callVars >>

\* the awaited request req resolves: the operation prints its result line
\* (when it has one), then the lines it prints before its next await, and
\* main() moves to its next statement
Resolved(req, then) ==
  /\ phase = "try"
  /\ req \in inflight
  /\ inflight' = inflight \ { req }
  /\ log' = (IF ResultLine(req) = "" THEN log
             ELSE Append(log, ResultLine(req))) \o then
  /\ pc' = pc + 1
  /\ phase' = IF pc = Len(RunSequence) THEN "finally" ELSE "try"
  /\ UNCHANGED << seed, collAtStart, idxAtStart, run, issued, closeCalls,
                  failedAt, callVars >>

Connect ==
  /\ Resolved("connect", << >>)
  /\ conn' = "open"
  /\ UNCHANGED << coll, indexes, result, explainVars >>

RunFindByGenre ==
  /\ Resolved("findByGenre", << >>)
  /\ result' = findByGenre(coll, "Fiction")
  /\ UNCHANGED << coll, indexes, conn, explainVars >>

RunFindPublishedAfter ==
  /\ Resolved("findPublishedAfter", << >>)
  /\ result' = findPublishedAfter(coll, AfterYear)
  /\ UNCHANGED << coll, indexes, conn, explainVars >>

RunFindByAuthor ==
  /\ Resolved("findByAuthor", << >>)
  /\ result' = findByAuthor(coll, "George Orwell")
  /\ UNCHANGED << coll, indexes, conn, explainVars >>

RunUpdatePrice ==
  /\ Resolved("updatePrice", << >>)
  /\ LET r == updatePrice(coll, "1984", NewPrice) IN
       /\ coll' = r.coll
       /\ result' = [matchedCount |-> r.matchedCount,
                     modifiedCount |-> r.modifiedCount]
  /\ UNCHANGED << indexes, conn, explainVars >>

RunInStockAfter ==
  /\ Resolved("inStockAfter", << >>)
  /\ result' = inStockAfter(coll, StockYear)
  /\ UNCHANGED << coll, indexes, conn, explainVars >>

RunSortedByPriceAsc ==
  /\ Resolved("sortedByPrice(asc)", << >>)
  /\ result' \in sortedByPrice(coll, "asc")
  /\ UNCHANGED << coll, indexes, conn, explainVars >>

RunSortedByPriceDesc ==
  /\ Resolved("sortedByPrice(desc)", << >>)
  /\ result' \in sortedByPrice(coll, "desc")
  /\ UNCHANGED << coll, indexes, conn, explainVars >>

RunGetPage1 ==
  /\ Resolved("getPage(1)", << >>)
  /\ result' = getPage(coll, 1, RunPageSize)
  /\ UNCHANGED << coll, indexes, conn, explainVars >>

RunGetPage2 ==
  /\ Resolved("getPage(2)", << >>)
  /\ result' = getPage(coll, 2, RunPageSize)
  /\ UNCHANGED << coll, indexes, conn, explainVars >>

RunAvgPriceByGenre ==
  /\ Resolved("avgPriceByGenre", << >>)
  /\ result' \in avgPriceByGenre(coll)
  /\ UNCHANGED << coll, indexes, conn, explainVars >>

RunAuthorWithMostBooks ==
  /\ Resolved("authorWithMostBooks", << >>)
  /\ result' \in authorWithMostBooks(coll)
  /\ UNCHANGED << coll, indexes, conn, explainVars >>

RunGroupByDecade ==
  /\ Resolved("groupByDecade", << >>)
  /\ result' = groupByDecade(coll)
  /\ UNCHANGED << coll, indexes, conn, explainVars >>

\* explainIndexEffect, first explain
ExplainBefore ==
  /\ Resolved("explain(before)", << CreatingIndexLine >>)
  /\ before' = Explain(coll, indexes, "1984")
  /\ idxBefore' = indexes
  /\ UNCHANGED << coll, indexes, conn, result, after, idxAfter >>

\* explainIndexEffect, createIndex({ title: 1 })
CreateTitleIndex ==
  /\ Resolved("createIndex(title)", << >>)
  /\ indexes' = indexes \cup { TitleIndex }
  /\ UNCHANGED << coll, conn, result, explainVars >>

\* explainIndexEffect, createIndex({ author: 1, published_year: -1 })
CreateCompoundIndex ==
  /\ Resolved("createIndex(compound)", << RunningAfterLine >>)
  /\ indexes' = indexes \cup { CompoundIndex }
  /\ UNCHANGED << coll, conn, result, explainVars >>

\* explainIndexEffect, second explain, and its return value
ExplainAfter ==
  /\ Resolved("explain(after)", << >>)
  /\ after' = Explain(coll, indexes, "1984")
  /\ idxAfter' = indexes
  /\ result' = [before |-> before, after |-> after']
  /\ UNCHANGED << coll, indexes, conn, before, idxBefore >>

\* the error is dropped and main() goes on with its next statement
FailAndContinue ==
  /\ phase = "try"
  /\ inflight # {}
  /\ inflight' = {}
  /\ failedAt' = pc
  /\ pc' = pc + 1
  /\ phase' = IF pc = Len(RunSequence) THEN "finally" ELSE "try"
  /\ UNCHANGED << coll, indexes, seed, collAtStart, idxAtStart, run, issued,
                  log, conn, closeCalls, result, explainVars, callVars >>

\* the awaited request rejects: control leaves the try block
Fail ==
  /\ phase = "try"
  /\ inflight # {}
  /\ inflight' = {}
  /\ failedAt' = pc
  /\ phase' = "catch"
  /\ UNCHANGED << coll, indexes, seed, collAtStart, idxAtStart, run, pc,
                  issued, log, conn, closeCalls, result, explainVars,
                  callVars >>

\* the error is logged and main() returns without closing the client
CatchNoFinally ==
  /\ phase = "catch"
  /\ log' = Append(log, "Error in queries.js")
  /\ phase' = "done"
  /\ UNCHANGED << coll, indexes, seed, collAtStart, idxAtStart, run, pc,
                  inflight, issued, conn, closeCalls, failedAt, result,
                  explainVars, callVars >>

\* catch (err): the error is logged
Catch ==
  /\ phase = "catch"
  /\ log' = Append(log, "Error in queries.js")
  /\ phase' = "finally"
  /\ UNCHANGED << coll, indexes, seed, collAtStart, idxAtStart, run, pc,
                  inflight, issued, conn, closeCalls, failedAt, result,
                  explainVars, callVars >>

\* finally: client.close() is called
Close ==
  /\ phase = "finally"
  /\ closeCalls' = closeCalls + 1
  /\ inflight' = inflight \cup { "close" }
  /\ issued' = Append(issued, "close")
  /\ phase' = "closing"
  /\ UNCHANGED << coll, indexes, seed, collAtStart, idxAtStart, run, pc, log,
                  conn, failedAt, result, explainVars, callVars >>

\* client.close() resolves
Closed ==
  /\ phase = "closing"
  /\ "close" \in inflight
  /\ inflight' = inflight \ { "close" }
  /\ conn' = "closed"
  /\ log' = Append(log, "Disconnected from MongoDB")
  /\ phase' = "done"
  /\ UNCHANGED << coll, indexes, seed, collAtStart, idxAtStart, run, pc,
                  issued, closeCalls, failedAt, result, explainVars,
                  callVars >>

\* client.close() rejects: main() rejects, nothing more is printed
CloseFails ==
  /\ phase = "closing"
  /\ "close" \in inflight
  /\ inflight' = inflight \ { "close" }
  /\ phase' = "done"
  /\ UNCHANGED << coll, indexes, seed, collAtStart, idxAtStart, run, pc,
                  issued, log, conn, closeCalls, failedAt, result,
                  explainVars, callVars >>

\* the script is run again on the same datastore
StartRun ==
  /\ phase = "done"
  /\ run < MaxRuns
  /\ run' = run + 1
  /\ collAtStart' = coll
  /\ idxAtStart' = indexes
  /\ phase' = "try"
  /\ pc' = 1
  /\ inflight' = {}
  /\ issued' = << >>
  /\ log' = << >>
  /\ conn' = "new"
  /\ closeCalls' = 0
  /\ failedAt' = 0
  /\ result' = << >>
  /\ before' = NoStats
  /\ after' = NoStats
  /\ idxBefore' = {}
  /\ idxAfter' = {}
  /\ UNCHANGED << coll, indexes, seed, callVars >>

Step ==
  \/ Issue
  \/ Connect
  \/ RunFindByGenre
  \/ RunFindPublishedAfter
  \/ RunFindByAuthor
  \/ RunUpdatePrice
  \/ RunInStockAfter
  \/ RunSortedByPriceAsc
  \/ RunSortedByPriceDesc
  \/ RunGetPage1
  \/ RunGetPage2
  \/ RunAvgPriceByGenre
  \/ RunAuthorWithMostBooks
  \/ RunGroupByDecade
  \/ ExplainBefore
  \/ CreateTitleIndex
  \/ CreateCompoundIndex
  \/ ExplainAfter
  \/ Fail
  \/ Catch
  \/ Close
  \/ Closed
  \/ CloseFails

Next == Step \/ StartRun

Spec == Init /\ [][Next]_vars

\* every awaited request settles, and main() runs on when it does
FairSpec == Spec /\ WF_vars(Step)

----------------------------------------------------------------------------
(* The operations called one at a time, with any arguments, on any          *)
(* collection: the functions main() defines, deleteByTitle among them.     *)

opsFrame == << indexes, seed, collAtStart, idxAtStart, run, phase, pc, conn,
               closeCalls, failedAt, explainVars >>

\* documents for the operations called here, which read title and price
PaletteOps == { b \in Palette : b.title # "Bad Book" }

InitOps ==
  /\ coll \in { c \in SeededCollections :
                  \A i \in DOMAIN c :
                    \E b \in PaletteOps : c[i] = WithId(b, c[i]._id) }
  /\ indexes = {}
  /\ seed = << >>
  /\ collAtStart = << >>
  /\ idxAtStart = {}
  /\ run = 1
  /\ phase = "ops"
  /\ pc = 1
  /\ inflight = {}
  /\ issued = << >>
  /\ log = << >>
  /\ conn = "open"
  /\ closeCalls = 0
  /\ failedAt = 0
  /\ result = << >>
  /\ before = NoStats
  /\ after = NoStats
  /\ idxBefore = {}
  /\ idxAfter = {}
  /\ call = NoCall
  /\ lastDelete = NoCall
  /\ pre = << >>

\* an operation is called, as everywhere in main() with the call before it
\* awaited: it sends its request and gives control back at its await
Called(r) ==
  /\ inflight = {}
  /\ Len(issued) < MaxCalls
  /\ inflight' = { r }
  /\ issued' = Append(issued, r)
  /\ UNCHANGED << coll, log, result, callVars, opsFrame >>

\* the request r resolves: the operation prints its result line and returns
Returned(r) ==
  /\ r \in inflight
  /\ inflight' = inflight \ { r }
  /\ log' = Append(log, ResultLine(r.op))
  /\ call' = r
  /\ pre' = coll
  /\ UNCHANGED << issued, opsFrame >>

CallUpdatePrice ==
  \E title \in Titles, newPrice \in Prices :
    Called([op |-> "updatePrice", title |-> title, newPrice |-> newPrice])

ReturnUpdatePrice ==
  \E r \in inflight :
    /\ r.op = "updatePrice"
    /\ Returned(r)
    /\ LET u == updatePrice(coll, r.title, r.newPrice) IN
         /\ coll' = u.coll
         /\ result' = [matchedCount |-> u.matchedCount,
                       modifiedCount |-> u.modifiedCount]
    /\ lastDelete' = NoCall

CallDeleteByTitle ==
  \E title \in Titles :
    Called([op |-> "deleteByTitle", title |-> title])

ReturnDeleteByTitle ==
  \E r \in inflight :
    /\ r.op = "deleteByTitle"
    /\ Returned(r)
    /\ LET d == deleteByTitle(coll, r.title) IN
         /\ coll' = d.coll
         /\ result' = [deletedCount |-> d.deletedCount]
    /\ lastDelete' = IF call.op = "deleteByTitle"
                     THEN [op |-> "deleteByTitle", title |-> call.title,
                           deletedCount |-> result.deletedCount]
                     ELSE NoCall

CallGetPage ==
  \E page \in 1..MaxPage, pageSize \in 1..MaxPageSize :
    Called([op |-> "getPage", page |-> page, pageSize |-> pageSize])

ReturnGetPage ==
  \E r \in inflight :
    /\ r.op = "getPage"
    /\ Returned(r)
    /\ result' = getPage(coll, r.page, r.pageSize)
    /\ lastDelete' = NoCall
    /\ UNCHANGED coll

CallSortedByPrice ==
  \E order \in Orders :
    Called([op |-> "sortedByPrice", order |-> order])

ReturnSortedByPrice ==
  \E r \in inflight :
    /\ r.op = "sortedByPrice"
    /\ Returned(r)
    /\ result' \in sortedByPrice(coll, r.order)
    /\ lastDelete' = NoCall
    /\ UNCHANGED coll

NextOps ==
  \/ CallUpdatePrice
  \/ ReturnUpdatePrice
  \/ CallDeleteByTitle
  \/ ReturnDeleteByTitle
  \/ CallGetPage
  \/ ReturnGetPage
  \/ CallSortedByPrice
  \/ ReturnSortedByPrice

SpecOps == InitOps /\ [][NextOps]_vars

----------------------------------------------------------------------------
(* Properties of a run of main() *)

Pos(req) == CHOOSE i \in DOMAIN RunSequence : RunSequence[i] = req

ErrorLines == Len(SelectSeq(log, LAMBDA l : l = "Error in queries.js"))

BothIndexes == { TitleIndex, CompoundIndex }

\* C1: on every path of main() (connect fails, an operation fails, all
\* succeed) client.close() is called, exactly once, with no request
\* outstanding, and it is the last request the run issues.
ClosedOnceAfterLastRequest ==
  /\ [](closeCalls <= 1)
  /\ [](phase = "done" => closeCalls = 1)
  /\ [](\A i \in DOMAIN issued : issued[i] = "close" => i = Len(issued))
  /\ []("close" \in inflight => inflight = { "close" })
  /\ [](closeCalls = 1 => Len(issued) >= 1 /\ issued[Len(issued)] = "close")
  /\ (phase \in { "try", "catch", "finally" }) ~> (closeCalls = 1)

\* a run in which updatePrice was rejected has called close() and ended
ClosedAfterFailure ==
  /\ phase = "done"
  /\ failedAt = Pos("updatePrice")
  /\ closeCalls = 1
  /\ issued[Len(issued)] = "close"

\* C2: when the k-th request of the run is rejected, no later request of
\* the catalog is issued, none is issued twice, the error is logged once,
\* and what the requests before k changed (the price, the indexes) stays.
FailFast ==
  /\ failedAt = 0 => ErrorLines = 0
  /\ failedAt # 0 =>
       /\ phase # "try"
       /\ SubSeq(issued, 1, failedAt) = SubSeq(RunSequence, 1, failedAt)
       /\ \A i \in (failedAt + 1)..Len(issued) : issued[i] = "close"
       /\ \A i, j \in DOMAIN issued : issued[i] = issued[j] => i = j
       /\ ErrorLines = IF phase = "catch" THEN 0 ELSE 1
       /\ coll = IF failedAt > Pos("updatePrice")
                 THEN UpdateOne(collAtStart, "1984", NewPrice).coll
                 ELSE collAtStart
       /\ indexes = idxAtStart
                    \cup (IF failedAt > Pos("createIndex(title)")
                          THEN { TitleIndex } ELSE {})
                    \cup (IF failedAt > Pos("createIndex(compound)")
                          THEN { CompoundIndex } ELSE {})

\* the second createIndex was rejected: the run has ended, the new price
\* and the title index are still there, the error was logged
FailedAtCompoundIndex ==
  /\ phase = "done"
  /\ run = 1
  /\ failedAt = Pos("createIndex(compound)")
  /\ coll # collAtStart
  /\ indexes = { TitleIndex }
  /\ ErrorLines = 1

ReadsAfterUpdate ==
  { "inStockAfter", "sortedByPrice(asc)", "sortedByPrice(desc)",
    "getPage(1)", "getPage(2)", "avgPriceByGenre", "authorWithMostBooks",
    "groupByDecade", "explain(before)", "explain(after)" }

IndexCreations == { "createIndex(title)", "createIndex(compound)" }

\* C3: at most one request is outstanding; a request is issued only when
\* every earlier one has settled and its result line is printed; requests
\* go out in the order of the run sequence, the price update before every
\* sort, page and aggregation, the index creation in the last operation.
StrictlySequential ==
  /\ Cardinality(inflight) <= 1
  /\ \A i \in DOMAIN issued :
       issued[i] # "close" => i <= Len(RunSequence) /\ issued[i] = RunSequence[i]
  /\ (phase = "try" /\ inflight # {}) =>
       /\ inflight = { issued[Len(issued)] }
       /\ \A i \in 1..(Len(issued) - 1) :
            issued[i] \notin IndexCreations =>
              \E k \in DOMAIN log : log[k] = ResultLine(issued[i])
       /\ \A k \in DOMAIN log : log[k] # ResultLine(issued[Len(issued)])
       /\ Len(log) = Cardinality({ i \in 1..(Len(issued) - 1) :
                                     issued[i] \notin IndexCreations })
                     + Cardinality({ l \in { "Running explain() BEFORE creating index...",
                                             CreatingIndexLine, RunningAfterLine } :
                                       \E k \in DOMAIN log : log[k] = l })
  /\ \A j \in DOMAIN issued :
       issued[j] \in ReadsAfterUpdate =>
         \E i \in 1..(j - 1) : issued[i] = "updatePrice"
  /\ \A i, j \in DOMAIN issued :
       (i < j /\ issued[i] \in IndexCreations) =>
         issued[j] \in { "createIndex(compound)", "explain(after)", "close" }

\* the last request of the catalog is outstanding, every earlier result is
\* printed
LastRequestOutstanding ==
  /\ phase = "try"
  /\ inflight = { "explain(after)" }
  /\ Len(issued) = Len(RunSequence)
  /\ Len(log) = Len(RunSequence)

Changed == { i \in DOMAIN seed : i \in DOMAIN coll /\ coll[i] # seed[i] }

\* C8: over any number of runs the collection keeps the seeded documents,
\* none added and none removed; at most one document differs from its seeded
\* state, it is titled '1984' and differs in its price only; the only other
\* change is the two indexes.
OnlyOnePriceChanges ==
  /\ Len(coll) = Len(seed)
  /\ Cardinality(Changed) <= 1
  /\ \A i \in Changed :
       /\ seed[i].title = "1984"
       /\ coll[i] = [seed[i] EXCEPT !.price = NewPrice]
  /\ indexes \subseteq BothIndexes

\* two runs have ended on a collection seeded with two copies of '1984' at
\* the old price: one was repriced
TwoRunsOneRepriced ==
  /\ run = 2
  /\ phase = "done"
  /\ failedAt = 0
  /\ Cardinality({ i \in DOMAIN seed :
                     seed[i].title = "1984" /\ seed[i].price # NewPrice }) = 2
  /\ Cardinality(Changed) = 1
  /\ indexes = BothIndexes

\* C9: the keys examined by the explain taken after the index creation are
\* no more than the documents examined by the explain taken before it.
KeysAfterAtMostDocsBefore ==
  after.stage # "none" =>
    after.totalKeysExamined <= before.totalDocsExamined

\* a first run over three documents, two of them titled '1984'
IndexScanAfterCollectionScan ==
  /\ before.stage = "COLLSCAN"
  /\ after.stage = "IXSCAN"
  /\ before.totalDocsExamined = 3
  /\ after.totalKeysExamined = 2

\* C10 as stated: in every run the first explain is taken with neither index
\* on the collection and the second with both; the indexes are created in
\* the order title, compound and stay on the collection.
FirstExplainNeverSeesIndex ==
  /\ before.stage # "none" => idxBefore = {}
  /\ after.stage # "none" => idxAfter = BothIndexes
  /\ indexes \in { {}, { TitleIndex }, BothIndexes }
  /\ idxAtStart \subseteq indexes

\* C10, amended: the first explain is taken with the indexes the run found
\* at its start, none in the first run and both in a run that follows a
\* completed one; the second explain is taken with both; the indexes are
\* created by explainIndexEffect only, title first, and stay on the
\* collection when the run ends and when the next one starts.
FirstExplainSeesIndexesOfEarlierRuns ==
  /\ run = 1 => idxAtStart = {}
  /\ before.stage # "none" => idxBefore = idxAtStart
  /\ after.stage # "none" => idxAfter = BothIndexes
  /\ indexes \in { {}, { TitleIndex }, BothIndexes }
  /\ idxAtStart \subseteq indexes
  /\ idxAtStart \in { {}, { TitleIndex }, BothIndexes }
  /\ TitleIndex \in indexes \ idxAtStart =>
       \E i \in DOMAIN issued : issued[i] = "createIndex(title)"
  /\ CompoundIndex \in indexes \ idxAtStart =>
       \E i \in DOMAIN issued : issued[i] = "createIndex(compound)"
  /\ (phase = "try" /\ issued = << >>) => indexes = idxAtStart
  /\ (phase = "done" /\ failedAt = 0) => indexes = BothIndexes

\* the second run has taken both explains with both indexes in place
SecondRunExplainsWithIndexes ==
  /\ run = 2
  /\ before.stage = "IXSCAN"
  /\ after.stage = "IXSCAN"
  /\ idxBefore = BothIndexes
  /\ idxAfter = BothIndexes

----------------------------------------------------------------------------
(* Properties of the operations called directly *)

Holders(c, title) == { i \in DOMAIN c : c[i].title = title }

\* C4 as stated: on an existing title updatePrice returns matched=1,
\* modified=1 and changes one document's price only, whatever the new
\* price; on a missing title it returns 0/0 and changes nothing.
UpdateAlwaysModifies ==
  call.op = "updatePrice" =>
    IF Holders(pre, call.title) = {}
    THEN result.matchedCount = 0 /\ result.modifiedCount = 0 /\ coll = pre
    ELSE /\ result.matchedCount = 1
         /\ result.modifiedCount = 1
         /\ \E i \in Holders(pre, call.title) :
              coll = [pre EXCEPT ![i].price = call.newPrice]

\* C4, amended: on an existing title updatePrice returns matched=1 and sets
\* the price of one document with that title, every other document and
\* field unchanged; modified is 1 when that document's price differed from
\* the new price and 0 (nothing changes) when it was equal; on a missing
\* title it returns 0/0 and changes nothing.
UpdateModifiesWhenPriceDiffers ==
  call.op = "updatePrice" =>
    IF Holders(pre, call.title) = {}
    THEN result.matchedCount = 0 /\ result.modifiedCount = 0 /\ coll = pre
    ELSE /\ result.matchedCount = 1
         /\ \E i \in Holders(pre, call.title) :
              /\ coll = [pre EXCEPT ![i].price = call.newPrice]
              /\ result.modifiedCount =
                   IF pre[i].price = call.newPrice THEN 0 ELSE 1
         /\ result.modifiedCount = 0 => coll = pre

\* a collection with two documents titled '1984': one was repriced, the
\* other kept its price
UpdatedOneOfTwo ==
  /\ call.op = "updatePrice"
  /\ Cardinality(Holders(pre, call.title)) = 2
  /\ result.modifiedCount = 1
  /\ \E i \in Holders(coll, call.title) : coll[i].price # call.newPrice

\* C5 as stated: deleteByTitle on an existing title removes one document
\* with that title and returns 1; the same call made again right after
\* returns 0 and changes nothing, whatever the collection holds.
RepeatedDeleteReturnsZero ==
  call.op = "deleteByTitle" =>
    /\ IF Holders(pre, call.title) = {}
       THEN result.deletedCount = 0 /\ coll = pre
       ELSE /\ result.deletedCount = 1
            /\ \E i \in Holders(pre, call.title) : coll = RemoveAt(pre, i)
    /\ (lastDelete.op = "deleteByTitle" /\ lastDelete.title = call.title
          /\ lastDelete.deletedCount = 1) =>
         result.deletedCount = 0 /\ coll = pre

\* C5, amended: deleteByTitle on an existing title removes one document with
\* that title and returns 1, the others unchanged; on a missing title it
\* returns 0 and changes nothing.  The same call made again right after
\* returns 0 and changes nothing when no document with that title is left,
\* and removes another one and returns 1 when one is left.
RepeatedDeleteRemovesNextHolder ==
  call.op = "deleteByTitle" =>
    /\ IF Holders(pre, call.title) = {}
       THEN result.deletedCount = 0 /\ coll = pre
       ELSE /\ result.deletedCount = 1
            /\ \E i \in Holders(pre, call.title) : coll = RemoveAt(pre, i)
            /\ Cardinality(Holders(coll, call.title))
                 = Cardinality(Holders(pre, call.title)) - 1
    /\ (lastDelete.op = "deleteByTitle" /\ lastDelete.title = call.title
          /\ lastDelete.deletedCount = 1) =>
         /\ result.deletedCount = IF Holders(pre, call.title) = {} THEN 0 ELSE 1
         /\ result.deletedCount = 0 => coll = pre

\* the same title deleted twice in a row, the second call finding nothing
DeletedThenAbsent ==
  /\ call.op = "deleteByTitle"
  /\ lastDelete.op = "deleteByTitle"
  /\ lastDelete.title = call.title
  /\ lastDelete.deletedCount = 1
  /\ result.deletedCount = 0
  /\ Len(coll) >= 1

PageCount(n, pageSize) == (n + pageSize - 1) \div pageSize

Pages(c, pageSize) ==
  [p \in 1..PageCount(Len(c), pageSize) |-> getPage(c, p, pageSize)]

\* C6: getPage(page, pageSize) returns title and author of the documents at
\* positions (page-1)*pageSize .. page*pageSize-1 of the scan order, fewer
\* on the last page and none beyond it; the pages 1 .. ceil(N/pageSize) put
\* end to end are the whole collection, each document once.
PagesPartitionTheCollection ==
  /\ call.op = "getPage" =>
       LET first == (call.page - 1) * call.pageSize
           left == Len(pre) - first
           n == IF left <= 0 THEN 0 ELSE Min(call.pageSize, left)
       IN /\ Len(result) = n
          /\ \A k \in 1..n :
               result[k] = [title |-> pre[first + k].title,
                            author |-> pre[first + k].author]
  /\ \A pageSize \in 1..MaxPageSize :
       /\ Concat(Pages(coll, pageSize))
            = [i \in DOMAIN coll |->
                 [title |-> coll[i].title, author |-> coll[i].author]]
       /\ getPage(coll, PageCount(Len(coll), pageSize) + 1, pageSize) = << >>

\* the second page of a collection of three, two to a page: one document
ShortLastPage ==
  /\ call.op = "getPage"
  /\ call.page = 2
  /\ call.pageSize = 2
  /\ Len(pre) = 3
  /\ Len(result) = 1

\* C7: sortedByPrice returns one entry (title, price) per document, the
\* same multiset as the collection; prices are non-decreasing for 'asc'
\* (also when the argument is left out) and non-increasing for 'desc' and
\* for any other value of the argument.
SortedByPriceOrdered ==
  call.op = "sortedByPrice" =>
    /\ Len(result) = Len(pre)
    /\ \E f \in Perms(Len(pre)) :
         \A i \in DOMAIN pre :
           result[i] = [title |-> pre[f[i]].title, price |-> pre[f[i]].price]
    /\ call.order \in { "asc", "undefined" } =>
         \A i \in 1..(Len(result) - 1) : result[i].price <= result[i + 1].price
    /\ call.order \notin { "asc", "undefined" } =>
         \A i \in 1..(Len(result) - 1) : result[i].price >= result[i + 1].price

\* an order that is neither 'asc' nor 'desc', on documents of three prices
SortedWithUnknownOrder ==
  /\ call.op = "sortedByPrice"
  /\ call.order = "ASC"
  /\ Len(result) = 3
  /\ result[1].price > result[2].price
  /\ result[2].price > result[3].price
  /\ pre[1].price < pre[2].price

====
